---------------------------- MODULE Spec2Model ----------------------------
(***************************************************************************)
(* Field-level encryption layer of the job-board backend                   *)
(* (backend/utils/encryption.py): the codec (encrypt_data / decrypt_data), *)
(* the gate (_is_encrypted_data), the model mixin (EncryptedFieldMixin)    *)
(* and the repair tool (fix_multiple_encrypted_data).                      *)
(*                                                                         *)
(* A string is modelled by what the code can observe of it: a base text    *)
(* (one of a few representative plaintexts, with its length and its        *)
(* base64 / whitespace / UTF-8 properties) under a stack of encryption     *)
(* layers, outermost last.  Each layer records the key it was made with    *)
(* and the nonce (Fernet IV and timestamp) drawn for it.  The length and   *)
(* the '=' padding of a token are computed from the payload length the way *)
(* Fernet and base64 produce them.                                         *)
(***************************************************************************)
EXTENDS Naturals, Sequences, FiniteSets, TLC

\* ------------------------------------------------------------- bounds
\* operations applied in a run of the codec specification
MaxOps == 3
\* fresh nonces the entity specification may draw
MaxNonce == 3
\* records in the table the repair tool walks
MaxRecords == 2
\* encryption layers a stored value may carry before the repair
MaxLayers == 6
\* runs of the repair tool over the same table
MaxRuns == 2
\* requests the password-reset endpoints accept in a run
MaxRequests == 3

\* ------------------------------------------------------------- strings
DefaultKey == "default-key-change-this-in-production"
ProdKey == "prod-secret-2024"
Keys == {DefaultKey, ProdKey}
\* settings.ENCRYPTION_KEY = None: a setting read from an unset environment variable
NoKey == "<None>"

ShortText == "Jane Doe"
MidText == "12 Main Street, Springfield"
BlankText == "   "
B64Text == "VGhpcyBiaW8gd2FzIHBhc3RlZCBpbiBhcyBiYXNlNjQgYnkgdGhlIHVzZXI="
LongText == "I am a backend developer who enjoys long walks and databases."
SurrogateText == "caf\\udce9"
EmptyText == ""
\* a postal address of 38 characters
AddressText == "742 Evergreen Terrace, Springfield, OR"
\* the default test_data of test_encryption_roundtrip
TestText == "Test Data 123"
\* Python's None, kept apart from every string
NoneText == "<None>"
\* the token of an 8-byte plaintext with its last four characters cut off
TruncatedText == "Z0FBQUFBQnE2bldBRlBnbHNydkRMZGpSbGpaX3FIZG9jd2FjRXFpVlRZMm5VVHFuY0UzZENldjE0bmxJaF91cFJFUXZIVFlaNW5jLVZTV2U5ZlBITVJLRmZ3NHBPLWM1b0E9"

Texts == {ShortText, MidText, BlankText, B64Text, LongText, SurrogateText,
          TruncatedText}

\* len(text)
TextLen(t) ==
  CASE t = EmptyText -> 0
    [] t = NoneText -> 0
    [] t = ShortText -> 8
    [] t = MidText -> 27
    [] t = BlankText -> 3
    [] t = B64Text -> 60
    [] t = LongText -> 61
    [] t = SurrogateText -> 4
    [] t = TruncatedText -> 132
    [] t = TestText -> 13
    [] t = AddressText -> 38

\* base64.b64decode(text.encode('ascii')) returns without raising
TextB64Decodable(t) ==
  t \in {BlankText, B64Text, EmptyText, TruncatedText, AddressText}
\* '=' in text
TextHasEq(t) == t = B64Text
\* not text or not text.strip()
TextBlank(t) == t \in {BlankText, EmptyText, NoneText}
\* text.encode('utf-8') returns without raising (no lone surrogate)
TextEncodable(t) == t # SurrogateText

Str(base, layers) == [base |-> base, layers |-> layers]
Empty == Str(EmptyText, <<>>)
NoneValue == Str(NoneText, <<>>)
Plain(t) == Str(t, <<>>)
Layer(key, nonce) == [key |-> key, nonce |-> nonce]
Wrap(v, key, nonce) == Str(v.base, Append(v.layers, Layer(key, nonce)))
Depth(v) == Len(v.layers)
IsToken(v) == Depth(v) > 0
Outer(v) == v.layers[Depth(v)]
Unwrap(v) == Str(v.base, SubSeq(v.layers, 1, Depth(v) - 1))
\* a token with a character of its ciphertext or HMAC changed: same length and
\* padding, authentic under no key
Tamper(v) ==
  Str(v.base, Append(SubSeq(v.layers, 1, Depth(v) - 1),
                     Layer(<<"tampered", Outer(v).key[2]>>, Outer(v).nonce)))
Tampered(v) == IsToken(v) /\ Outer(v).key[1] = "tampered"

\* Fernet token bytes: version, timestamp, IV, PKCS7-padded AES-CBC blocks, HMAC
FernetRawLen(n) == 1 + 8 + 16 + 16 * ((n \div 16) + 1) + 32
B64Len(n) == 4 * ((n + 2) \div 3)
B64Padded(n) == n % 3 # 0
\* Fernet.encrypt returns urlsafe base64; encrypt_data base64-encodes it again
TokenLen(n) == B64Len(B64Len(FernetRawLen(n)))
TokenHasEq(n) == B64Padded(B64Len(FernetRawLen(n)))

RECURSIVE LenUnder(_, _)
LenUnder(base, layers) ==
  IF layers = <<>> THEN TextLen(base)
  ELSE TokenLen(LenUnder(base, SubSeq(layers, 1, Len(layers) - 1)))

StrLen(v) == LenUnder(v.base, v.layers)
HasEq(v) ==
  IF IsToken(v) THEN TokenHasEq(StrLen(Unwrap(v))) ELSE TextHasEq(v.base)
B64Decodable(v) == IsToken(v) \/ TextB64Decodable(v.base)
Blank(v) == ~IsToken(v) /\ TextBlank(v.base)
Encodable(v) == IsToken(v) \/ TextEncodable(v.base)

\* ------------------------------------------------------------- results
NoExc == "none"
Return(v) == [exc |-> NoExc, val |-> v]
Raise(e) == [exc |-> e, val |-> Empty]
Raised(r) == r.exc # NoExc

\* ------------------------------------------------------------- codec
MinEncryptedLen == 50

_is_encrypted_data(data) ==
  IF StrLen(data) = 0 \/ StrLen(data) < MinEncryptedLen THEN FALSE
  ELSE IF ~B64Decodable(data) THEN FALSE
  ELSE HasEq(data) /\ StrLen(data) > MinEncryptedLen

_generate_key(key) == <<"pbkdf2-sha256", key>>

\* encrypt_data without the None check: str(None) is encrypted like any text
encrypt_data_none_as_text(data, key, nonce) ==
  IF data # NoneValue /\ Blank(data) THEN Return(Empty)
  ELSE IF _is_encrypted_data(data) THEN Return(data)
  ELSE IF key = NoKey \/ ~Encodable(data) THEN Raise("EncryptionError")
  ELSE Return(Wrap(data, _generate_key(key), nonce))

encrypt_data(data, key, nonce) ==
  IF data = NoneValue THEN Return(Empty)
  ELSE IF Blank(data) THEN Return(Empty)
  ELSE IF _is_encrypted_data(data) THEN Return(data)
  ELSE IF key = NoKey \/ ~Encodable(data) THEN Raise("EncryptionError")
  ELSE Return(Wrap(data, _generate_key(key), nonce))

\* decrypt_data without its except clauses: Fernet's InvalidToken reaches the caller
decrypt_data_unwrapped(encrypted_data, key) ==
  IF Blank(encrypted_data) THEN Return(Empty)
  ELSE IF ~_is_encrypted_data(encrypted_data) THEN Return(encrypted_data)
  ELSE IF IsToken(encrypted_data) /\ Outer(encrypted_data).key = _generate_key(key)
       THEN Return(Unwrap(encrypted_data))
  ELSE Raise("InvalidToken")

decrypt_data(encrypted_data, key) ==
  IF Blank(encrypted_data) THEN Return(Empty)
  ELSE IF ~_is_encrypted_data(encrypted_data) THEN Return(encrypted_data)
  ELSE IF IsToken(encrypted_data) /\ Outer(encrypted_data).key = _generate_key(key)
       THEN Return(Unwrap(encrypted_data))
  ELSE Raise("DecryptionError")

\* settings.ENCRYPTION_KEY as configured for the running process
_get_encryption_key == ProdKey

\* ------------------------------------------------------------- state
VARIABLES
  input,             \* codec run: the value the run started from
  ops,               \* codec run: the calls made so far, <<name, key>>
  outs,              \* codec run: what each call returned or raised
  validation,        \* codec run: what validate_encryption_setup() reported, if called
  live,              \* entity: an instance has been constructed or loaded
  attr,              \* entity: the instance's attribute values, per declared field
  original_values,   \* entity: self._original_values
  decrypted_cache,   \* entity: self._decrypted_cache
  stored,            \* entity: the instance's row exists in the table
  row,               \* entity: the stored row, per declared field
  nonce,             \* entity: nonces drawn so far
  clean,             \* entity: no declared field assigned since the last successful save / load
  last,              \* entity: the last operation and how it ended
  table0,            \* repair: the table as it was when the run started
  table,             \* repair: the table, a sequence of rows
  batch_size,        \* repair: the batch_size argument
  total,             \* repair: queryset.count() taken at the start
  offset,            \* repair: the offset of the current batch
  batch,             \* repair: the records of the current batch still to process
  stats,             \* repair: the statistics
  outcome,           \* repair: per record, how its iteration ended
  instance_fields,   \* repair: per record, ENCRYPTED_FIELDS of the instance afterwards
  instance_attr,     \* repair: per record, the instance's attribute values afterwards
  instance_orig,     \* repair: per record, the instance's _original_values afterwards
  pc,                \* repair: where the run is
  visits,            \* repair: per record, how often this run processed it
  runs,              \* repair: the statistics the earlier runs returned
  heap,              \* repair: the records in the order the database walks them
  getter,            \* shared instance: the thread inside get_decrypted_field
  setter,            \* shared instance: the thread inside set_field_value
  password,          \* accounts: the password of the registered user
  is_active,         \* accounts: the user's is_active flag
  login,             \* accounts: the last login request and its response
  tokens,            \* password reset: the committed PasswordResetToken rows
  locks,             \* password reset: per row, the request holding its row lock (0: none)
  procs,             \* password reset: the requests in flight, per worker
  started,           \* password reset: requests accepted so far
  resets             \* password reset: per row, the successful resets made with it

codecVars == <<input, ops, outs, validation>>
entityVars == <<live, attr, original_values, decrypted_cache, stored, row, nonce, clean, last>>
repairVars == <<table0, table, batch_size, total, offset, batch, stats, outcome,
                instance_fields, instance_attr, instance_orig, pc, visits, runs,
                heap>>
sharedVars == <<getter, setter>>
loginVars == <<password, is_active, login>>
resetVars == <<tokens, locks, procs, started, resets>>
authVars == <<loginVars, resetVars>>
vars == <<codecVars, entityVars, repairVars, sharedVars, authVars>>

\* CustomUser.ENCRYPTED_FIELDS, cut to its first name (the mixin treats every
\* declared field alike, one after the other)
ENCRYPTED_FIELDS == <<"first_name">>
Fields == {ENCRYPTED_FIELDS[i] : i \in 1..Len(ENCRYPTED_FIELDS)}

NoFields == [f \in {} |-> Empty]
AllEmpty == [f \in Fields |-> Empty]
NoOp == [op |-> "none", field |-> "", exc |-> NoExc, ret |-> Empty,
         enc_failed |-> FALSE, clean_before |-> FALSE,
         row_kept |-> TRUE, orig_kept |-> TRUE]

EntityIdle ==
  /\ live = FALSE
  /\ attr = AllEmpty
  /\ original_values = NoFields
  /\ decrypted_cache = NoFields
  /\ stored = FALSE
  /\ row = AllEmpty
  /\ nonce = 0
  /\ clean = FALSE
  /\ last = NoOp

CodecIdle ==
  /\ input = Empty
  /\ ops = <<>>
  /\ outs = <<>>
  /\ validation = <<>>

\* no thread has entered the instance's methods
NoThread == [pc |-> "idle", value |-> Empty, ret |-> Empty, exc |-> NoExc]

SharedIdle ==
  /\ getter = NoThread
  /\ setter = NoThread

\* the account the requests are about, and the passwords it may have
UserName == "jane"
UserEmail == "jane@example.com"
InitialPassword == "testpass123"
NewPassword == "fresh-pass-456"
OtherPassword == "other-pass-789"

\* JSON values of a request field, and the field being absent
JsonTrue == "true"
JsonFalse == "false"
JsonNull == "null"
JsonStringFalse == "'false'"
JsonStringEmpty == "''"
Absent == "<absent>"

NoResponse ==
  [status |-> 0, error |-> "", lifetime |-> "", has_refresh |-> FALSE,
   remember_me |-> Absent, expires_in |-> ""]
NoLogin ==
  [request |-> [username |-> "", password |-> "", remember_me |-> Absent],
   response |-> NoResponse]

\* no request of the reset flow is in flight
IdleProc ==
  [kind |-> "idle", pc |-> "idle", email |-> "", token |-> 0, new_password |-> "",
   candidates |-> {}, marked |-> {}, saw_used |-> FALSE, saw_expired |-> FALSE,
   set_password |-> FALSE, status |-> 0, message |-> "", fields |-> {}]

LoginIdle ==
  /\ password = InitialPassword
  /\ is_active = TRUE
  /\ login = NoLogin

ResetIdle ==
  /\ tokens = <<>>
  /\ locks = <<>>
  /\ procs = <<IdleProc, IdleProc>>
  /\ started = 0
  /\ resets = <<>>

AuthIdle == LoginIdle /\ ResetIdle

ZeroStats == [processed |-> 0, fixed |-> 0, failed |-> 0, skipped |-> 0]

RepairIdle ==
  /\ table0 = <<>>
  /\ table = <<>>
  /\ batch_size = 1
  /\ total = 0
  /\ offset = 0
  /\ batch = <<>>
  /\ stats = ZeroStats
  /\ outcome = <<>>
  /\ instance_fields = <<>>
  /\ instance_attr = <<>>
  /\ instance_orig = <<>>
  /\ pc = "idle"
  /\ visits = <<>>
  /\ runs = <<>>
  /\ heap = <<>>

\* ------------------------------------------------------------- mixin
Truthy(v) == StrLen(v) > 0

\* the field keeps its value and the loop goes on
Kept(cur, n) == [val |-> cur, nonce |-> n, exc |-> NoExc, enc_failed |-> FALSE]

\* the try block of _encrypt_fields logging the EncryptionError and keeping the
\* value, as EncryptedCharField.get_prep_value does
encrypt_field_result_swallowing(cur, n, r) ==
  IF Raised(r)
  THEN [val |-> cur, nonce |-> n, exc |-> NoExc, enc_failed |-> TRUE]
  ELSE [val |-> r.val, nonce |-> IF Depth(r.val) > Depth(cur) THEN n + 1 ELSE n,
        exc |-> NoExc, enc_failed |-> FALSE]

\* the try block of _encrypt_fields, r being what encrypt_data(current_value) did:
\* setattr on success, ValidationError on EncryptionError
encrypt_field_result(cur, n, r) ==
  IF Raised(r)
  THEN [val |-> cur, nonce |-> n, exc |-> "ValidationError", enc_failed |-> TRUE]
  ELSE [val |-> r.val, nonce |-> IF Depth(r.val) > Depth(cur) THEN n + 1 ELSE n,
        exc |-> NoExc, enc_failed |-> FALSE]

\* encrypt_field without the change detection against the snapshot
encrypt_field_unconditional(cur, known, snap, n) ==
  IF Truthy(cur) /\ ~_is_encrypted_data(cur)
  THEN encrypt_field_result(cur, n, encrypt_data(cur, _get_encryption_key, n + 1))
  ELSE Kept(cur, n)

\* one iteration of the loop of _encrypt_fields on a field whose current value is
\* cur; known/snap are self._original_values.get(field_name); n nonces are used up
encrypt_field(cur, known, snap, n) ==
  IF Truthy(cur) /\ (~known \/ cur # snap) /\ ~_is_encrypted_data(cur)
  THEN encrypt_field_result(cur, n, encrypt_data(cur, _get_encryption_key, n + 1))
  ELSE Kept(cur, n)

RECURSIVE encrypt_fields_from(_, _, _, _, _, _)

\* the rest of the loop of _encrypt_fields once the i-th field's iteration is done
encrypt_fields_step(i, fields, attrs, orig, failed, step) ==
  IF step.exc # NoExc
  THEN [attr |-> [attrs EXCEPT ![fields[i]] = step.val], nonce |-> step.nonce,
        exc |-> step.exc, enc_failed |-> TRUE]
  ELSE encrypt_fields_from(i + 1, fields, [attrs EXCEPT ![fields[i]] = step.val],
                           orig, step.nonce, failed \/ step.enc_failed)

\* the loop of _encrypt_fields from the i-th declared field on
encrypt_fields_from(i, fields, attrs, orig, n, failed) ==
  IF i > Len(fields)
  THEN [attr |-> attrs, nonce |-> n, exc |-> NoExc, enc_failed |-> failed]
  ELSE encrypt_fields_step(i, fields, attrs, orig, failed,
         encrypt_field(attrs[fields[i]], fields[i] \in DOMAIN orig,
                       IF fields[i] \in DOMAIN orig THEN orig[fields[i]] ELSE Empty,
                       n))

_encrypt_fields(fields, attrs, orig, n) ==
  encrypt_fields_from(1, fields, attrs, orig, n, FALSE)

FieldSet(fields) == {fields[i] : i \in 1..Len(fields)}

\* self._original_values after _store_original_values()
_store_original_values(fields, attrs, orig) ==
  [f \in DOMAIN orig \cup FieldSet(fields) |->
     IF f \in FieldSet(fields) THEN attrs[f] ELSE orig[f]]

\* EncryptedFieldMixin.save after _encrypt_fields ended as e: the table write
\* (which succeeds or raises) and the refresh of the snapshot
save_after_encrypt(fields, orig, old_row, old_stored, write_ok, e) ==
  IF e.exc # NoExc
  THEN [attr |-> e.attr, orig |-> orig, row |-> old_row, stored |-> old_stored,
        nonce |-> e.nonce, exc |-> e.exc, enc_failed |-> e.enc_failed]
  ELSE IF ~write_ok
  THEN [attr |-> e.attr, orig |-> orig, row |-> old_row, stored |-> old_stored,
        nonce |-> e.nonce, exc |-> "DatabaseError", enc_failed |-> e.enc_failed]
  ELSE [attr |-> e.attr, orig |-> _store_original_values(fields, e.attr, orig),
        row |-> e.attr, stored |-> TRUE,
        nonce |-> e.nonce, exc |-> NoExc, enc_failed |-> e.enc_failed]

\* EncryptedFieldMixin.save on an instance
save(fields, attrs, orig, n, old_row, old_stored, write_ok) ==
  save_after_encrypt(fields, orig, old_row, old_stored, write_ok,
                     _encrypt_fields(fields, attrs, orig, n))

\* self._decrypted_cache[field_name] = value
CachePut(cache, field_name, value) ==
  [f \in DOMAIN cache \cup {field_name} |->
     IF f = field_name THEN value ELSE cache[f]]

\* self._decrypted_cache.pop(field_name, None)
CachePop(cache, field_name) == [f \in DOMAIN cache \ {field_name} |-> cache[f]]

\* the try block of get_decrypted_field, r being what decrypt_data did: the
\* except clause catches DecryptionError and nothing else
decrypted_or_raw(field_name, encrypted_value, cache, r) ==
  IF r.exc = "DecryptionError"
  THEN [ret |-> encrypted_value, cache |-> cache, exc |-> NoExc]
  ELSE IF Raised(r)
  THEN [ret |-> Empty, cache |-> cache, exc |-> r.exc]
  ELSE [ret |-> r.val, cache |-> CachePut(cache, field_name, r.val), exc |-> NoExc]

\* an attribute of the entity that is not a declared encrypted field
UndeclaredAttrs == [username |-> Plain(ShortText)]

\* getattr(self, field_name, '')
getattr_or_empty(attrs, field_name) ==
  IF field_name \in DOMAIN attrs THEN attrs[field_name]
  ELSE IF field_name \in DOMAIN UndeclaredAttrs THEN UndeclaredAttrs[field_name]
  ELSE Empty

\* what get_decrypted_field returns or raises, and the cache it leaves
get_decrypted_field(field_name, attrs, cache) ==
  IF field_name \notin FieldSet(ENCRYPTED_FIELDS)
  THEN [ret |-> getattr_or_empty(attrs, field_name), cache |-> cache, exc |-> NoExc]
  ELSE IF field_name \in DOMAIN cache
  THEN [ret |-> cache[field_name], cache |-> cache, exc |-> NoExc]
  ELSE IF ~Truthy(getattr_or_empty(attrs, field_name))
  THEN [ret |-> Empty, cache |-> cache, exc |-> NoExc]
  ELSE decrypted_or_raw(field_name, attrs[field_name], cache,
                        decrypt_data(attrs[field_name], _get_encryption_key))

\* --------------------------------------------------- storage utilities
\* an EncryptionError is logged and the value is left as it was
keep_on_error(value, r) == IF Raised(r) THEN Return(value) ELSE r

\* EncryptedCharField.get_prep_value(value)
get_prep_value(value, n) ==
  IF value = NoneValue \/ value = Empty THEN Return(value)
  ELSE keep_on_error(value, encrypt_data(value, _get_encryption_key, n))

\* encrypt_dict({field: value}, [field], key), as the value left under the field
encrypt_dict(value, key, n) ==
  IF value = NoneValue THEN Return(value)
  ELSE keep_on_error(value, encrypt_data(value, key, n))

\* encrypt_model_fields(instance, [field]), as the attribute it leaves
encrypt_model_fields(value, n) ==
  IF ~Truthy(value) THEN Return(value)
  ELSE keep_on_error(value, encrypt_data(value, _get_encryption_key, n))

\* ------------------------------------------------------- validation
\* is_encryption_enabled() reporting that any configured key will do
is_encryption_enabled_any_key(key) == key # NoKey

\* is_encryption_enabled(), key being what _get_encryption_key() returns
is_encryption_enabled(key) == key # DefaultKey

\* "return test_data == decrypted", r being what decrypt_data did
roundtrip_compare(test_data, r) ==
  IF Raised(r) THEN FALSE ELSE r.val = test_data

\* the try block after encrypt_data, which did r
roundtrip_decrypt(test_data, key, r) ==
  IF Raised(r) THEN FALSE
  ELSE roundtrip_compare(test_data, decrypt_data(r.val, key))

\* test_encryption_roundtrip(test_data) under the configured key
test_encryption_roundtrip(test_data, key) ==
  roundtrip_decrypt(test_data, key, encrypt_data(test_data, key, 1))

SetKeyRecommendation == "Set a secure ENCRYPTION_KEY in your settings"
RoundtripRecommendation == "Encryption roundtrip test failed - check your configuration"

\* the result dict once its first three entries are computed
validation_result(enabled, configured, roundtrip) ==
  [encryption_enabled |-> enabled,
   key_configured |-> configured,
   roundtrip_test |-> roundtrip,
   recommendations |->
     (IF ~enabled THEN <<SetKeyRecommendation>> ELSE <<>>)
       \o (IF ~roundtrip THEN <<RoundtripRecommendation>> ELSE <<>>)]

\* validate_encryption_setup() under the configured key
validate_encryption_setup(key) ==
  validation_result(is_encryption_enabled(key), key # NoKey,
                    test_encryption_roundtrip(Plain(TestText), key))

\* ------------------------------------------------- codec specification
\* A run applies encrypt_data / decrypt_data to the previous call's return value.
CodecInputs == {Plain(t) : t \in Texts} \cup {Empty, NoneValue}

Current == IF outs = <<>> THEN input ELSE outs[Len(outs)].val
LastRaised == IF outs = <<>> THEN FALSE ELSE Raised(outs[Len(outs)])
CanCall == Len(ops) < MaxOps /\ ~LastRaised

CodecInit ==
  /\ input \in CodecInputs
  /\ ops = <<>>
  /\ outs = <<>>
  /\ validation = <<>>
  /\ EntityIdle
  /\ RepairIdle
  /\ SharedIdle
  /\ AuthIdle

CallEncrypt(key) ==
  /\ CanCall
  /\ ops' = Append(ops, <<"encrypt_data", key>>)
  /\ outs' = Append(outs, encrypt_data(Current, key, Len(ops) + 1))
  /\ UNCHANGED <<input, validation, entityVars, repairVars, sharedVars, authVars>>

CallDecrypt(key) ==
  /\ CanCall
  /\ ops' = Append(ops, <<"decrypt_data", key>>)
  /\ outs' = Append(outs, decrypt_data(Current, key))
  /\ UNCHANGED <<input, validation, entityVars, repairVars, sharedVars, authVars>>

CallGetPrepValue ==
  /\ CanCall
  /\ ops' = Append(ops, <<"get_prep_value", _get_encryption_key>>)
  /\ outs' = Append(outs, get_prep_value(Current, Len(ops) + 1))
  /\ UNCHANGED <<input, validation, entityVars, repairVars, sharedVars, authVars>>

CallEncryptDict(key) ==
  /\ CanCall
  /\ ops' = Append(ops, <<"encrypt_dict", key>>)
  /\ outs' = Append(outs, encrypt_dict(Current, key, Len(ops) + 1))
  /\ UNCHANGED <<input, validation, entityVars, repairVars, sharedVars, authVars>>

CallEncryptModelFields ==
  /\ CanCall
  /\ ops' = Append(ops, <<"encrypt_model_fields", _get_encryption_key>>)
  /\ outs' = Append(outs, encrypt_model_fields(Current, Len(ops) + 1))
  /\ UNCHANGED <<input, validation, entityVars, repairVars, sharedVars, authVars>>

\* a second encrypt_data call with the argument and key of the call before it
CallEncryptSame(key) ==
  /\ CanCall
  /\ Len(ops) >= 1
  /\ ops[Len(ops)] = <<"encrypt_data", key>>
  /\ ops' = Append(ops, <<"encrypt_same", key>>)
  /\ outs' = Append(outs, encrypt_data(IF Len(ops) = 1 THEN input
                                       ELSE outs[Len(ops) - 1].val,
                                       key, Len(ops) + 1))
  /\ UNCHANGED <<input, validation, entityVars, repairVars, sharedVars, authVars>>

\* Command.validate_system: the command's last step, under the key the
\* deployment configured
ValidateSystem(key) ==
  /\ validation = <<>>
  /\ validation' = <<[key |-> key, result |-> validate_encryption_setup(key)]>>
  /\ UNCHANGED <<input, ops, outs, entityVars, repairVars, sharedVars, authVars>>

\* the value is damaged in storage or transit before it is read back
TamperToken ==
  /\ CanCall
  /\ IsToken(Current)
  /\ ~Tampered(Current)
  /\ ops' = Append(ops, <<"tamper", "">>)
  /\ outs' = Append(outs, Return(Tamper(Current)))
  /\ UNCHANGED <<input, validation, entityVars, repairVars, sharedVars, authVars>>

CodecNext ==
  \/ \E key \in Keys : CallEncrypt(key)
  \/ \E key \in Keys : CallEncryptSame(key)
  \/ TamperToken
  \/ \E key \in Keys : CallDecrypt(key)
  \/ CallGetPrepValue
  \/ \E key \in Keys : CallEncryptDict(key)
  \/ CallEncryptModelFields
  \/ \E key \in Keys \cup {NoKey} : ValidateSystem(key)

SpecCodec == CodecInit /\ [][CodecNext]_vars

\* the run is encrypt_data(input, k1) followed by decrypt_data(., k2)
EncThenDec(k1, k2) ==
  /\ Len(ops) >= 2
  /\ ops[1] = <<"encrypt_data", k1>>
  /\ ops[2] = <<"decrypt_data", k2>>

\* the run is encrypt_data(input, k1) followed by encrypt_data(., k2)
EncThenEnc(k1, k2) ==
  /\ Len(ops) >= 2
  /\ ops[1] = <<"encrypt_data", k1>>
  /\ ops[2] = <<"encrypt_data", k2>>

\* C2: round trip. For every non-empty string s and key k,
\* decrypt_data(encrypt_data(s, k), k) returns exactly s.
C2_RoundTrip ==
  \A k \in Keys :
    (EncThenDec(k, k) /\ StrLen(input) > 0) => outs[2] = Return(input)

\* C3: no double encryption. encrypt_data applied to a token that encrypt_data
\* produced from a non-empty plaintext returns that token unchanged.
C3_NoDoubleEncryption ==
  \A k1 \in Keys, k2 \in Keys :
    (EncThenEnc(k1, k2) /\ ~IsToken(input) /\ IsToken(outs[1].val))
      => outs[2] = outs[1]

\* the argument of the i-th call of the run
Arg(i) ==
  IF i = 1 THEN input
  ELSE IF ops[i][1] = "encrypt_same" THEN (IF i = 2 THEN input ELSE outs[i - 2].val)
  ELSE outs[i - 1].val
StorageUtilities == {"get_prep_value", "encrypt_dict", "encrypt_model_fields"}

\* C9: every operation that encrypts a value for storage raises to its caller
\* when encrypt_data fails, and never returns with the plaintext left in place.
C9_EncryptionFailurePropagates ==
  \A i \in 1..Len(ops) :
    (ops[i][1] \in StorageUtilities /\ Raised(encrypt_data(Arg(i), ops[i][2], i)))
      => Raised(outs[i])

\* C10: wrong-key failure. For every non-empty plaintext s and keys k1 # k2,
\* decrypt_data(encrypt_data(s, k1), k2) raises DecryptionError and returns nothing.
C10_WrongKeyRaises ==
  \A k1 \in Keys, k2 \in Keys :
    (EncThenDec(k1, k2) /\ k1 # k2 /\ StrLen(input) > 0 /\ IsToken(outs[1].val))
      => outs[2].exc = "DecryptionError"

\* not valid base64, a truncated token, or a tampered token
Corrupted(v) ==
  \/ ~B64Decodable(v)
  \/ v = Plain(TruncatedText)
  \/ Tampered(v)

\* C11: corrupted-token failure. For every non-empty input that is not valid
\* base64, is a truncated token or is a tampered token, decrypt_data raises
\* DecryptionError and returns nothing.
C11_CorruptedTokenRaises ==
  \A i \in 1..Len(ops) :
    (ops[i][1] = "decrypt_data" /\ StrLen(Arg(i)) > 0 /\ Corrupted(Arg(i)))
      => outs[i].exc = "DecryptionError"

\* C14: every token encrypt_data makes from a plaintext is recognised by the
\* gate, whether or not its base64 encoding ends in '=' padding.
C14_GateRecognisesTokens ==
  \A i \in 1..Len(ops) :
    (/\ ops[i][1] = "encrypt_data"
     /\ ~IsToken(Arg(i))
     /\ IsToken(outs[i].val))
      => _is_encrypted_data(outs[i].val)

\* C15: gate definition. _is_encrypted_data(v) is false when v is shorter than
\* the 50-character threshold or not base64-decodable, and true for every other v.
C15_GateDefinition ==
  \A i \in 1..Len(ops) :
    (ops[i][1] \in {"encrypt_data", "decrypt_data"} /\ ~Blank(Arg(i)))
      => (_is_encrypted_data(Arg(i))
            <=> (StrLen(Arg(i)) >= MinEncryptedLen /\ B64Decodable(Arg(i))))

\* the run is encrypt_data(input, k) twice
EncryptedTwice(k) ==
  /\ Len(ops) >= 2
  /\ ops[1] = <<"encrypt_data", k>>
  /\ ops[2] = <<"encrypt_same", k>>

\* C16: non-determinism. Two calls encrypt_data(s, k) on a plaintext s return
\* different tokens, and both tokens decrypt to s.
C16_FreshTokens ==
  \A k \in Keys :
    (EncryptedTwice(k) /\ ~IsToken(input) /\ IsToken(outs[1].val))
      => /\ outs[1] # outs[2]
         /\ decrypt_data(outs[1].val, k) = Return(input)
         /\ decrypt_data(outs[2].val, k) = Return(input)

\* C17: encrypt_data of '' and of None returns '', decrypt_data of '' returns '',
\* and neither raises.
C17_EmptyPassthrough ==
  /\ (Len(ops) >= 1 /\ ops[1][1] = "encrypt_data" /\ input \in {Empty, NoneValue})
       => outs[1] = Return(Empty)
  /\ (Len(ops) >= 1 /\ ops[1][1] = "decrypt_data" /\ input = Empty)
       => outs[1] = Return(Empty)

\* C17's case: encrypt_data(None) has returned ''
C17_Witness ==
  /\ Len(ops) >= 1
  /\ ops[1][1] = "encrypt_data"
  /\ input = NoneValue
  /\ outs[1] = Return(Empty)

\* ------------------------------------------------ entity specification
\* One CustomUser row and one in-memory instance of it, driven by the
\* registration view, the profile-update serializer and direct use of the mixin.
InputTexts == {ShortText, MidText, B64Text, SurrogateText}
\* values that reach a declared field already encrypted: a token under another
\* key, and a token damaged on the way
ForeignToken == Wrap(Plain(ShortText), _generate_key(DefaultKey), 0)
DamagedToken == Tamper(Wrap(Plain(ShortText), _generate_key(ProdKey), 0))
InputValues ==
  {Plain(t) : t \in InputTexts} \cup {Empty, NoneValue, ForeignToken, DamagedToken}

\* the record of an operation: what it raised or returned, whether encrypt_data
\* raised inside it, and whether it left the stored row and the snapshot as they were
Op(name, field, exc, ret, enc_failed, new_stored, new_row, new_orig) ==
  [op |-> name, field |-> field, exc |-> exc, ret |-> ret,
   enc_failed |-> enc_failed, clean_before |-> clean,
   row_kept |-> (new_stored = stored /\ new_row = row),
   orig_kept |-> (new_orig = original_values)]

Quiet(name, field, ret) ==
  Op(name, field, NoExc, ret, FALSE, stored, row, original_values)

EntityInit == EntityIdle /\ CodecIdle /\ RepairIdle /\ SharedIdle /\ AuthIdle

\* CustomUser(first_name=..., last_name=...): Model.__init__, then the snapshot
Construct(vals) ==
  /\ ~stored
  /\ live' = TRUE
  /\ attr' = vals
  /\ original_values' = _store_original_values(ENCRYPTED_FIELDS, vals, NoFields)
  /\ decrypted_cache' = NoFields
  /\ clean' = FALSE
  /\ last' = Op("__init__", "", NoExc, Empty, FALSE, stored, row, original_values')
  /\ UNCHANGED <<stored, row, nonce, codecVars, repairVars, sharedVars, authVars>>

\* CustomUser.objects.get(...): the instance is built from the stored row
Load ==
  /\ stored
  /\ live' = TRUE
  /\ attr' = row
  /\ original_values' = _store_original_values(ENCRYPTED_FIELDS, row, NoFields)
  /\ decrypted_cache' = NoFields
  /\ clean' = TRUE
  /\ last' = Op("load", "", NoExc, Empty, FALSE, stored, row, original_values')
  /\ UNCHANGED <<stored, row, nonce, codecVars, repairVars, sharedVars, authVars>>

\* the instance, its row and the log after a save that ended as r
ApplySave(name, field_name, r) ==
  /\ r.nonce <= MaxNonce
  /\ attr' = r.attr
  /\ original_values' = r.orig
  /\ row' = r.row
  /\ stored' = r.stored
  /\ nonce' = r.nonce
  /\ clean' = (r.exc = NoExc)
  /\ last' = Op(name, field_name, r.exc, Empty, r.enc_failed, r.stored, r.row, r.orig)

\* instance.save()
Save(write_ok) ==
  /\ live
  /\ ApplySave("save", "",
               save(ENCRYPTED_FIELDS, attr, original_values, nonce, row, stored,
                    write_ok))
  /\ UNCHANGED <<live, decrypted_cache, codecVars, repairVars, sharedVars, authVars>>

\* register_view: create_user(first_name=..., last_name=...) builds the
\* instance from the request's raw values and saves it
register_view(vals, write_ok) ==
  /\ ~stored
  /\ \A f \in Fields : Truthy(vals[f])
  /\ live' = TRUE
  /\ decrypted_cache' = NoFields
  /\ ApplySave("create_user", "",
               save(ENCRYPTED_FIELDS, vals,
                    _store_original_values(ENCRYPTED_FIELDS, vals, NoFields),
                    nonce, row, stored, write_ok))
  /\ UNCHANGED <<codecVars, repairVars, sharedVars, authVars>>

\* instance.<field> = value
Assign(field_name, value) ==
  /\ live
  /\ attr' = [attr EXCEPT ![field_name] = value]
  /\ clean' = FALSE
  /\ last' = Quiet("setattr", field_name, Empty)
  /\ UNCHANGED <<live, original_values, decrypted_cache, stored, row, nonce, codecVars, repairVars, sharedVars, authVars>>

\* instance.set_field_value(field_name, value)
set_field_value(field_name, value) ==
  /\ live
  /\ attr' = [attr EXCEPT ![field_name] = value]
  /\ decrypted_cache' = CachePop(decrypted_cache, field_name)
  /\ clean' = FALSE
  /\ last' = Quiet("set_field_value", field_name, Empty)
  /\ UNCHANGED <<live, original_values, stored, row, nonce, codecVars, repairVars, sharedVars, authVars>>

\* the cache and the log after get_decrypted_field ended as g
ApplyGet(field_name, g) ==
  /\ decrypted_cache' = g.cache
  /\ last' = Op("get_decrypted_field", field_name, g.exc, g.ret, FALSE,
                stored, row, original_values)

\* instance.get_decrypted_field(field_name)
GetDecryptedField(field_name) ==
  /\ live
  /\ ApplyGet(field_name, get_decrypted_field(field_name, attr, decrypted_cache))
  /\ UNCHANGED <<live, attr, original_values, stored, row, nonce, clean, codecVars, repairVars, sharedVars, authVars>>

\* instance.refresh_from_db()
refresh_from_db ==
  /\ live
  /\ stored
  /\ attr' = row
  /\ decrypted_cache' = NoFields
  /\ original_values' = _store_original_values(ENCRYPTED_FIELDS, row, original_values)
  /\ clean' = TRUE
  /\ last' = Op("refresh_from_db", "", NoExc, Empty, FALSE, stored, row, original_values')
  /\ UNCHANGED <<live, stored, row, nonce, codecVars, repairVars, sharedVars, authVars>>

\* UserProfileUpdateSerializer.update once encrypt_data(value) ended as enc: an
\* EncryptionError leaves the instance alone, otherwise setattr and instance.save()
serializer_assign_and_save(field_name, value, write_ok, enc) ==
  IF Raised(enc)
  THEN /\ last' = Op("serializer_update", field_name, enc.exc, Empty, TRUE,
                     stored, row, original_values)
       /\ UNCHANGED <<attr, original_values, row, stored, nonce, clean>>
  ELSE ApplySave("serializer_update", field_name,
                 save(ENCRYPTED_FIELDS, [attr EXCEPT ![field_name] = enc.val],
                      original_values,
                      IF Depth(enc.val) > Depth(value) THEN nonce + 1 ELSE nonce,
                      row, stored, write_ok))

\* UserProfileUpdateSerializer.update with one declared field in validated_data:
\* the value is encrypted with settings.ENCRYPTION_KEY, assigned, and saved
serializer_update(field_name, value, write_ok) ==
  /\ live
  /\ stored
  /\ serializer_assign_and_save(field_name, value, write_ok,
                                encrypt_data(value, _get_encryption_key, nonce + 1))
  /\ UNCHANGED <<live, decrypted_cache, codecVars, repairVars, sharedVars, authVars>>

Next ==
  \/ \E vals \in [Fields -> InputValues] : Construct(vals)
  \/ Load
  \/ \E write_ok \in BOOLEAN : Save(write_ok)
  \/ \E vals \in [Fields -> InputValues], write_ok \in BOOLEAN :
       register_view(vals, write_ok)
  \/ \E f \in Fields, v \in InputValues : Assign(f, v)
  \/ \E f \in Fields, v \in InputValues : set_field_value(f, v)
  \/ \E f \in Fields \cup DOMAIN UndeclaredAttrs : GetDecryptedField(f)
  \/ refresh_from_db
  \/ \E f \in Fields, v \in InputValues, write_ok \in BOOLEAN :
       serializer_update(f, v, write_ok)

Spec == EntityInit /\ [][Next]_vars

\* a save path has just returned without raising
Saved == last.op \in {"save", "create_user", "serializer_update"} /\ last.exc = NoExc

\* C1: after save() returns successfully, every declared field whose stored value
\* is non-empty is stored as a token produced by encrypt_data, never as plaintext,
\* whether the plaintext came through the constructor or a later assignment.
C1_StoredAsCiphertext ==
  Saved => \A f \in Fields : Truthy(row[f]) => IsToken(row[f])

\* C4: a successful save() that follows a successful save() or a load with no
\* assignment to a declared field in between leaves the stored row byte-identical.
C4_IdempotentPersist ==
  (last.op = "save" /\ last.exc = NoExc /\ last.clean_before) => last.row_kept

\* C4's case: a repeated save over a stored token the gate does not recognise
C4_Witness ==
  /\ last.op = "save" /\ last.exc = NoExc /\ last.clean_before
  /\ \E f \in Fields : IsToken(row[f]) /\ ~_is_encrypted_data(row[f])

\* C5: a cache entry for a field always equals the decryption of the field's
\* current value.
C5_CacheNeverStale ==
  \A f \in DOMAIN decrypted_cache :
    LET r == decrypt_data(attr[f], _get_encryption_key)
    IN ~Raised(r) /\ decrypted_cache[f] = r.val

\* get_decrypted_field has just tried to decrypt the field's value and failed
DecryptFailed ==
  /\ last.op = "get_decrypted_field"
  /\ last.field \in Fields
  /\ last.field \notin DOMAIN decrypted_cache
  /\ Truthy(attr[last.field])
  /\ Raised(decrypt_data(attr[last.field], _get_encryption_key))

C13_CachesEitherWay ==
  (last.op = "get_decrypted_field" /\ last.field \in Fields /\ Truthy(attr[last.field]))
    => /\ last.field \in DOMAIN decrypted_cache
       /\ decrypted_cache[last.field] = last.ret

\* C8: when encrypting a declared field raises during save(), save() raises, the
\* stored row is unchanged and the original-value snapshot is unchanged.
C8_EncryptFailureAborts ==
  (last.op = "save" /\ last.enc_failed)
    => (last.exc = "ValidationError" /\ last.row_kept /\ last.orig_kept)

\* C8's case: save() met an EncryptionError on an instance whose row is stored
C8_Witness ==
  /\ last.op = "save" /\ last.enc_failed /\ stored
  /\ \E f \in Fields : ~Encodable(attr[f]) /\ row[f] # attr[f]

max_attempts == 5

RECURSIVE peel(_, _)

\* one attempt of _decrypt_multiple_layers, r being what decrypt_data did
peel_attempt(current_data, attempt, r) ==
  IF Raised(r) THEN current_data
  ELSE IF _is_encrypted_data(r.val) THEN peel(r.val, attempt + 1)
  ELSE r.val

\* the loop of _decrypt_multiple_layers from the given attempt on
peel(current_data, attempt) ==
  IF attempt >= max_attempts THEN current_data
  ELSE peel_attempt(current_data, attempt,
                    decrypt_data(current_data, _get_encryption_key))

_decrypt_multiple_layers(encrypted_data) == peel(encrypted_data, 0)

\* the field list Command.fix_corrupted_data passes for CustomUser, which is the
\* model's ENCRYPTED_FIELDS, cut to two names
field_names == <<"first_name", "last_name">>
RepairFields == FieldSet(field_names)

RECURSIVE fix_fields_from(_, _, _)

\* one field of the loop over field_names, decrypted_value being what
\* _decrypt_multiple_layers returned for it
fix_field(i, attrs, needs_save, decrypted_value) ==
  IF Truthy(attrs[field_names[i]]) /\ decrypted_value # attrs[field_names[i]]
  THEN fix_fields_from(i + 1, [attrs EXCEPT ![field_names[i]] = decrypted_value], TRUE)
  ELSE fix_fields_from(i + 1, attrs, needs_save)

\* the loop over field_names in fix_multiple_encrypted_data, from the i-th name on
fix_fields_from(i, attrs, needs_save) ==
  IF i > Len(field_names) THEN [attr |-> attrs, needs_save |-> needs_save]
  ELSE fix_field(i, attrs, needs_save, _decrypt_multiple_layers(attrs[field_names[i]]))

\* "if needs_save": the save with ENCRYPTED_FIELDS emptied, which ended as sv
fix_save(sv) ==
  IF sv.exc # NoExc
  THEN [row |-> sv.row, outcome |-> "failed", fields |-> <<>>,
        attr |-> sv.attr, orig |-> sv.orig]
  ELSE [row |-> sv.row, outcome |-> "fixed", fields |-> field_names,
        attr |-> sv.attr, orig |-> sv.orig]

\* the body of the try block once the loop over field_names ended as fx
fix_after_fields(old_row, write_ok, fx) ==
  IF ~fx.needs_save
  THEN [row |-> old_row, outcome |-> "skipped", fields |-> field_names,
        attr |-> old_row, orig |-> _store_original_values(field_names, old_row, NoFields)]
  ELSE fix_save(save(<<>>, fx.attr,
                     _store_original_values(field_names, old_row, NoFields),
                     0, old_row, TRUE, write_ok))

\* one iteration of "for instance in batch": the outcome for a row
fix_record(old_row, write_ok) ==
  fix_after_fields(old_row, write_ok, fix_fields_from(1, old_row, FALSE))

\* a value encrypted n times in a row, each layer wrapping the previous token
RECURSIVE Layers(_, _, _)
Layers(v, key, n) ==
  IF n = 0 THEN v ELSE Wrap(Layers(v, key, n - 1), _generate_key(key), n)

StoredValues ==
  {Empty, Layers(Plain(ShortText), DefaultKey, 1), Layers(Plain(MidText), ProdKey, 1)}
    \cup {Layers(Plain(ShortText), ProdKey, n) : n \in 0..MaxLayers}
    \cup {Layers(Plain(AddressText), ProdKey, max_attempts + 1)}
StoredRows ==
  {r \in [RepairFields -> StoredValues] :
     r["last_name"] \in {Empty, Layers(Plain(ShortText), ProdKey, 2)}}

RepairInit ==
  /\ \E n \in 1..MaxRecords : table0 \in [1..n -> StoredRows]
  /\ table = table0
  /\ batch_size \in 1..MaxRecords
  /\ total = Len(table0)
  /\ offset = 0
  /\ batch = <<>>
  /\ stats = ZeroStats
  /\ outcome = [i \in DOMAIN table0 |-> "pending"]
  /\ instance_fields = [i \in DOMAIN table0 |-> field_names]
  /\ instance_attr = table0
  /\ instance_orig = table0
  /\ pc = "fetch"
  /\ visits = [i \in DOMAIN table0 |-> 0]
  /\ runs = <<>>
  /\ heap = [i \in DOMAIN table0 |-> i]
  /\ CodecIdle
  /\ EntityIdle
  /\ SharedIdle
  /\ AuthIdle

\* batch = queryset[offset:offset + batch_size], evaluated when the inner loop
\* starts: objects.all() of a model without Meta.ordering carries no ORDER BY,
\* so each LIMIT/OFFSET query slices the order the database walks the rows in
\* at that moment
FetchBatch ==
  /\ pc = "fetch"
  /\ offset < total
  /\ batch' = [k \in 1..(IF offset + batch_size <= Len(table)
                         THEN batch_size ELSE Len(table) - offset) |->
                heap[offset + k]]
  /\ pc' = "records"
  /\ UNCHANGED <<table0, table, batch_size, total, offset, stats, outcome,
                 instance_fields, instance_attr, instance_orig, visits, runs, heap,
                 codecVars, entityVars, sharedVars, authVars>>

\* the walk order after an UPDATE of record i: the database either rewrites the
\* row in place or writes a new row version behind the others
rewritten(order, i, moves) ==
  IF moves THEN Append(SelectSeq(order, LAMBDA j : j # i), i) ELSE order

\* the table and the statistics after the iteration for record i ended as r
ApplyFix(i, r) ==
  /\ table' = [table EXCEPT ![i] = r.row]
  /\ outcome' = [outcome EXCEPT ![i] = r.outcome]
  /\ instance_fields' = [instance_fields EXCEPT ![i] = r.fields]
  /\ instance_attr' = [instance_attr EXCEPT ![i] = r.attr]
  /\ instance_orig' = [instance_orig EXCEPT ![i] = r.orig]
  /\ stats' = [stats EXCEPT !.processed = @ + 1, ![r.outcome] = @ + 1]
  /\ visits' = [visits EXCEPT ![i] = @ + 1]

\* one iteration of "for instance in batch"
RepairRecord(write_ok, moves) ==
  /\ pc = "records"
  /\ batch # <<>>
  /\ ApplyFix(Head(batch), fix_record(table[Head(batch)], write_ok))
  /\ heap' = IF outcome'[Head(batch)] = "fixed"
             THEN rewritten(heap, Head(batch), moves) ELSE heap
  /\ batch' = Tail(batch)
  /\ IF Tail(batch) = <<>>
     THEN /\ offset' = offset + batch_size
          /\ pc' = IF offset + batch_size < total THEN "fetch" ELSE "done"
     ELSE UNCHANGED <<offset, pc>>
  /\ UNCHANGED <<table0, batch_size, total, runs, codecVars, entityVars, sharedVars,
                 authVars>>

\* the command is run again over the table the run before left
RunAgain ==
  /\ pc = "done"
  /\ Len(runs) + 1 < MaxRuns
  /\ runs' = Append(runs, stats)
  /\ table0' = table
  /\ total' = Len(table)
  /\ offset' = 0
  /\ batch' = <<>>
  /\ stats' = ZeroStats
  /\ outcome' = [i \in DOMAIN table |-> "pending"]
  /\ instance_fields' = [i \in DOMAIN table |-> field_names]
  /\ instance_attr' = table
  /\ instance_orig' = table
  /\ visits' = [i \in DOMAIN table |-> 0]
  /\ pc' = "fetch"
  /\ UNCHANGED <<table, batch_size, heap, codecVars, entityVars, sharedVars, authVars>>

RepairNext ==
  \/ FetchBatch
  \/ \E write_ok, moves \in BOOLEAN : RepairRecord(write_ok, moves)
  \/ RunAgain

SpecRepair == RepairInit /\ [][RepairNext]_vars

\* the record's iteration has ended without an exception
Repaired(i) == visits[i] = 1 /\ outcome[i] \in {"fixed", "skipped"}

\* C6: repair convergence. A field that held a plaintext s encrypted n times in a
\* row, 2 <= n <= 5, holds after the repair of its record a single-layer token v
\* with decrypt_data(v) = s.
C6_RepairLeavesOneLayer ==
  \A i \in DOMAIN table : \A f \in RepairFields : \A n \in 2..5 :
    \A t \in {ShortText, MidText} :
      (Repaired(i) /\ table0[i][f] = Layers(Plain(t), ProdKey, n))
        => /\ Depth(table[i][f]) = 1
           /\ decrypt_data(table[i][f], _get_encryption_key) = Return(Plain(t))

\* empty, legacy plaintext, or one layer under the configured key
SingleOrPlain(v) ==
  \/ v = Empty
  \/ Depth(v) = 0
  \/ Depth(v) = 1 /\ Outer(v).key = _generate_key(_get_encryption_key)

\* C7: a record whose listed fields are all empty, legacy plaintext or correctly
\* single-encrypted is left byte-identical by the repair and counted as skipped.
C7_RepairSkipsCleanRecords ==
  \A i \in DOMAIN table :
    (Repaired(i) /\ \A f \in RepairFields : SingleOrPlain(table0[i][f]))
      => (table[i] = table0[i] /\ outcome[i] = "skipped")

\* C18: snapshot lifecycle. After a save() that returns successfully the
\* original-value snapshot of each declared field equals the field's in-memory
\* value; here for the save() the repair issues.
C18_SnapshotMatchesAfterSave ==
  \A i \in DOMAIN table :
    (visits[i] = 1 /\ outcome[i] = "fixed")
      => \A f \in RepairFields : instance_orig[i][f] = instance_attr[i][f]

\* C19: after the repair has finished with a record, whether its save succeeded
\* or raised, the instance's ENCRYPTED_FIELDS equals the declared list again.
C19_RepairRestoresEncryptedFields ==
  \A i \in DOMAIN table :
    outcome[i] # "pending" => instance_fields[i] = field_names

\* decrypt_data raises on a listed field of the record
DecryptRaises(i) ==
  \E f \in RepairFields :
    Truthy(table0[i][f]) /\ Raised(decrypt_data(table0[i][f], _get_encryption_key))

\* C20: a record for which decrypting a listed field raises, or whose save
\* raises, is counted as failed (not fixed, not skipped), and the records after
\* it are still processed.
C20_RepairFailureAccounting ==
  /\ \A i \in DOMAIN table :
       (visits[i] = 1 /\ DecryptRaises(i)) => outcome[i] = "failed"
  /\ (\A i \in DOMAIN table : visits[i] <= 1)
       => stats.failed = Cardinality({i \in DOMAIN table : outcome[i] = "failed"})
  /\ pc = "done" => \A i \in DOMAIN table : outcome[i] # "pending"

\* v with up to k layers made under the configured key removed, outermost
\* first, stopping at the first layer that cannot be decrypted
RECURSIVE LayersRemoved(_, _)
LayersRemoved(v, k) ==
  IF k = 0 \/ ~IsToken(v) THEN v
  ELSE IF Outer(v).key # _generate_key(_get_encryption_key) THEN v
  ELSE LayersRemoved(Unwrap(v), k - 1)

\* C21: bounded peeling. _decrypt_multiple_layers never raises and, for a value
\* carrying n encryption layers, returns the value with min(n, 5) layers
\* removed; when a layer cannot be decrypted it returns the deepest value
\* obtained so far. The repair assigns that result to each non-empty listed field.
C21_BoundedPeeling ==
  \A i \in DOMAIN table : \A f \in RepairFields :
    (visits[i] = 1 /\ Truthy(table0[i][f]))
      => instance_attr[i][f] = LayersRemoved(table0[i][f], max_attempts)

\* the recommendations validate_encryption_setup() returned, as a set
Recommended == {validation[1].result.recommendations[i] :
                  i \in 1..Len(validation[1].result.recommendations)}

\* C22: validate_encryption_setup reports encryption_enabled = false exactly when
\* the configured key is the built-in default secret; its recommendations are
\* non-empty exactly when encryption_enabled is false or the round-trip self-test
\* failed; with the default secret they include the one to set a real key.
C22_ValidationReport ==
  validation # <<>> =>
    /\ (~validation[1].result.encryption_enabled) <=> (validation[1].key = DefaultKey)
    /\ (Recommended # {}) <=> (~validation[1].result.encryption_enabled
                                \/ ~validation[1].result.roundtrip_test)
    /\ validation[1].key = DefaultKey => SetKeyRecommendation \in Recommended

\* C22's case: the validation ran with the default secret configured and
\* recommends only to set a real key
C22_Witness ==
  /\ validation # <<>>
  /\ validation[1].key = DefaultKey
  /\ ~validation[1].result.encryption_enabled
  /\ validation[1].result.roundtrip_test
  /\ validation[1].result.recommendations = <<SetKeyRecommendation>>

\* ------------------------------------- shared-instance specification
\* Two threads hold the same loaded instance: one calls get_decrypted_field(f),
\* the other set_field_value(f, v). Neither method takes a lock, so a thread
\* switch can fall between any two of their statements.
SharedField == ENCRYPTED_FIELDS[1]

\* what the row of the shared instance may hold
SharedStored ==
  {Empty, Plain(ShortText), ForeignToken,
   Wrap(Plain(ShortText), _generate_key(_get_encryption_key), 1),
   Wrap(Plain(LongText), _generate_key(_get_encryption_key), 1)}

\* the plaintexts the setter assigns
SharedValues == {Plain(ShortText), Plain(MidText), Plain(LongText)}

SharedInit ==
  /\ live = TRUE
  /\ stored = TRUE
  /\ row \in [Fields -> SharedStored]
  /\ attr = row
  /\ original_values = row
  /\ decrypted_cache \in
       {NoFields, get_decrypted_field(SharedField, row, NoFields).cache}
  /\ nonce = 0
  /\ clean = TRUE
  /\ last = NoOp
  /\ getter = [NoThread EXCEPT !.pc = "check"]
  /\ setter \in {[NoThread EXCEPT !.pc = "setattr", !.value = v] : v \in SharedValues}
  /\ CodecIdle
  /\ RepairIdle
  /\ AuthIdle

\* getter: "if field_name in self._decrypted_cache"
GetterCheckCache ==
  /\ getter.pc = "check"
  /\ getter' = [getter EXCEPT !.pc = IF SharedField \in DOMAIN decrypted_cache
                                     THEN "hit" ELSE "read"]
  /\ UNCHANGED <<entityVars, setter, codecVars, repairVars, authVars>>

\* getter: "return self._decrypted_cache[field_name]"
GetterReadCache ==
  /\ getter.pc = "hit"
  /\ getter' = IF SharedField \in DOMAIN decrypted_cache
               THEN [getter EXCEPT !.pc = "done", !.ret = decrypted_cache[SharedField]]
               ELSE [getter EXCEPT !.pc = "done", !.exc = "KeyError"]
  /\ UNCHANGED <<entityVars, setter, codecVars, repairVars, authVars>>

\* getter: "encrypted_value = getattr(self, field_name, '')" and the empty check
GetterReadField ==
  /\ getter.pc = "read"
  /\ getter' = IF Truthy(attr[SharedField])
               THEN [getter EXCEPT !.pc = "decrypt", !.value = attr[SharedField]]
               ELSE [getter EXCEPT !.pc = "done", !.ret = Empty]
  /\ UNCHANGED <<entityVars, setter, codecVars, repairVars, authVars>>

\* the getter after decrypt_data(encrypted_value) did r
getter_decrypted(g, r) ==
  IF r.exc = "DecryptionError" THEN [g EXCEPT !.pc = "done", !.ret = g.value]
  ELSE [g EXCEPT !.pc = "store", !.value = r.val]

\* getter: "decrypted_value = decrypt_data(encrypted_value)"
GetterDecrypt ==
  /\ getter.pc = "decrypt"
  /\ getter' = getter_decrypted(getter, decrypt_data(getter.value, _get_encryption_key))
  /\ UNCHANGED <<entityVars, setter, codecVars, repairVars, authVars>>

\* getter: "self._decrypted_cache[field_name] = decrypted_value" and the return
GetterStoreCache ==
  /\ getter.pc = "store"
  /\ decrypted_cache' = CachePut(decrypted_cache, SharedField, getter.value)
  /\ getter' = [getter EXCEPT !.pc = "done", !.ret = getter.value]
  /\ UNCHANGED <<live, attr, original_values, stored, row, nonce, clean, last,
                 setter, codecVars, repairVars, authVars>>

\* setter: "setattr(self, field_name, value)"
SetterSetattr ==
  /\ setter.pc = "setattr"
  /\ attr' = [attr EXCEPT ![SharedField] = setter.value]
  /\ clean' = FALSE
  /\ setter' = [setter EXCEPT !.pc = "pop"]
  /\ UNCHANGED <<live, original_values, decrypted_cache, stored, row, nonce, last,
                 getter, codecVars, repairVars, authVars>>

\* setter: "self._decrypted_cache.pop(field_name, None)" and the return
SetterPopCache ==
  /\ setter.pc = "pop"
  /\ decrypted_cache' = CachePop(decrypted_cache, SharedField)
  /\ setter' = [setter EXCEPT !.pc = "done"]
  /\ UNCHANGED <<live, attr, original_values, stored, row, nonce, clean, last,
                 getter, codecVars, repairVars, authVars>>

\* both calls have returned; one thread calls get_decrypted_field(f) again
SubsequentGet ==
  /\ getter.pc = "done"
  /\ setter.pc = "done"
  /\ last = NoOp
  /\ ApplyGet(SharedField, get_decrypted_field(SharedField, attr, decrypted_cache))
  /\ UNCHANGED <<live, attr, original_values, stored, row, nonce, clean,
                 sharedVars, codecVars, repairVars, authVars>>

SharedNext ==
  \/ GetterCheckCache
  \/ GetterReadCache
  \/ GetterReadField
  \/ GetterDecrypt
  \/ GetterStoreCache
  \/ SetterSetattr
  \/ SetterPopCache
  \/ SubsequentGet

SpecShared == SharedInit /\ [][SharedNext]_vars

\* C23: shared-instance safety. Once a concurrent get_decrypted_field(f) and
\* set_field_value(f, v) on the same instance have both returned, in whatever
\* interleaving, a subsequent get_decrypted_field(f) returns v.
C23_SharedInstanceSafety ==
  (getter.pc = "done" /\ setter.pc = "done" /\ last.op = "get_decrypted_field")
    => (last.exc = NoExc /\ last.ret = setter.value)

\* ------------------------------------------------ login specification
\* login_view over the requests a client can send for one registered account.
RememberValues ==
  {JsonTrue, JsonFalse, JsonNull, JsonStringFalse, JsonStringEmpty, Absent}

\* Python's truth value of a parsed JSON value
PyTruthy(j) == j \in {JsonTrue, JsonStringFalse}

\* data.get("remember_me", False)
get_remember_me(j) == IF j = Absent THEN JsonFalse ELSE j

\* django.contrib.auth.authenticate with the model backend: the user is
\* returned when the credentials match and the account is active
authenticate(username, pw, cur_password, active) ==
  username = UserName /\ pw = cur_password /\ active

ErrorResponse(status, error) ==
  [NoResponse EXCEPT !.status = status, !.error = error]

\* CustomAccessToken.for_user(user, remember_me): the lifetime it sets
for_user_lifetime(remember_me) ==
  IF PyTruthy(remember_me) THEN "15 days" ELSE "1 hour"

\* the response login_view builds for an authenticated user
login_response(remember_me) ==
  [status |-> 200, error |-> "",
   lifetime |-> for_user_lifetime(remember_me),
   has_refresh |-> PyTruthy(remember_me),
   remember_me |-> remember_me,
   expires_in |-> IF PyTruthy(remember_me) THEN "15 days" ELSE "1 hour"]

\* login_view(request) for the parsed body, against the stored account
login_view(data, cur_password, active) ==
  IF data.username = "" \/ data.password = ""
  THEN ErrorResponse(400, "Username and password are required")
  ELSE IF ~authenticate(data.username, data.password, cur_password, active)
  THEN ErrorResponse(401, "Invalid credentials")
  ELSE IF ~active
  THEN ErrorResponse(401, "User account is disabled")
  ELSE login_response(get_remember_me(data.remember_me))

LoginInit ==
  /\ password \in {InitialPassword, NewPassword}
  /\ is_active \in BOOLEAN
  /\ login = NoLogin
  /\ ResetIdle
  /\ CodecIdle
  /\ EntityIdle
  /\ RepairIdle
  /\ SharedIdle

\* POST /auth/login/ with the given body
PostLogin(data) ==
  /\ login' = [request |-> data, response |-> login_view(data, password, is_active)]
  /\ UNCHANGED <<password, is_active, resetVars, codecVars, entityVars, repairVars,
                 sharedVars>>

LoginBodies ==
  [username : {UserName, "nobody", ""},
   password : {InitialPassword, OtherPassword, ""},
   remember_me : RememberValues]

LoginNext == \E data \in LoginBodies : PostLogin(data)

SpecLogin == LoginInit /\ [][LoginNext]_vars

\* C25: for every successful login the response contains a refresh token if and
\* only if remember_me is true; expires_in is '15 days' when remember_me is true
\* and '1 hour' otherwise; remember_me is false when the request omits it.
C25_RememberMe ==
  login.response.status = 200 =>
    /\ login.response.has_refresh <=> (login.response.remember_me = JsonTrue)
    /\ login.response.expires_in =
         (IF login.response.remember_me = JsonTrue THEN "15 days" ELSE "1 hour")
    /\ login.request.remember_me = Absent => login.response.remember_me = JsonFalse

\* C26: repair statistics partition the collection. When the run returns,
\* 'processed' equals the number of records, each record has been processed
\* exactly once (none skipped or repeated at a batch boundary), and
\* processed = fixed + skipped + failed.
C26_StatsPartition ==
  pc = "done" =>
    /\ stats.processed = Len(table)
    /\ \A i \in DOMAIN table : visits[i] = 1
    /\ stats.processed = stats.fixed + stats.skipped + stats.failed

\* C27: the repair is idempotent. A second run over the table a first run left
\* (the first run having written every record it set out to write) reports
\* fixed = 0 and leaves every stored field unchanged, whatever the number of
\* encryption layers initially present.
C27_RepairIdempotent ==
  (Len(runs) = 1 /\ runs[1].failed = 0 /\ pc = "done")
    => (stats.fixed = 0 /\ table = table0)

\* --------------------------------------- password-reset specification
\* forgot_password_view, resend_reset_code_view and reset_password_confirm_view
\* served by two workers for one registered account. A request is a database
\* transaction: its writes become visible when it commits, a row it has updated
\* or selected for update stays locked until then, and a statement that meets a
\* locked row waits.
Workers == DOMAIN procs
UnknownEmail == "nobody@example.com"
Emails == {UserEmail, UnknownEmail, ""}

\* a committed PasswordResetToken row of the account
NewToken == [used |-> FALSE, expired |-> FALSE]

Respond(proc, status, message, fields) ==
  [proc EXCEPT !.pc = "done", !.status = status, !.message = message,
               !.fields = fields]

Free(p) == procs[p].pc \in {"idle", "done"} /\ started < MaxRequests

ResetInit ==
  /\ ResetIdle
  /\ LoginIdle
  /\ CodecIdle
  /\ EntityIdle
  /\ RepairIdle
  /\ SharedIdle

\* the generic answer of the two endpoints for an address without an account
unknown_email_message(kind) ==
  IF kind = "forgot"
  THEN "If an account exists with this email, a password reset code will be sent."
  ELSE "If an account exists with this email, a new password reset code will be sent."

\* the answer of the two endpoints once the code has been mailed
sent_message(kind) ==
  IF kind = "forgot"
  THEN "Password reset code has been sent to your email"
  ELSE "A new password reset code has been sent to your email"

\* forgot_password_view / resend_reset_code_view up to CustomUser.objects.get
begin_request(kind, email) ==
  IF email = ""
  THEN Respond([IdleProc EXCEPT !.kind = kind, !.email = email],
               400, "Email address is required", {"error"})
  ELSE IF email # UserEmail
  THEN Respond([IdleProc EXCEPT !.kind = kind, !.email = email],
               200, unknown_email_message(kind), {"message", "email"})
  ELSE [IdleProc EXCEPT !.kind = kind, !.email = email, !.pc = "filter"]

\* POST /auth/forgot-password/ or /auth/resend-reset-code/ reaches worker p
StartRequest(p, kind, email) ==
  /\ Free(p)
  /\ started' = started + 1
  /\ procs' = [procs EXCEPT ![p] = begin_request(kind, email)]
  /\ UNCHANGED <<tokens, locks, resets, loginVars, codecVars, entityVars,
                 repairVars, sharedVars>>

\* create_for_user: the UPDATE ... WHERE user = u AND used = false picks its rows
FilterUnused(p) ==
  /\ procs[p].pc = "filter"
  /\ procs' = [procs EXCEPT ![p].pc = "update",
                            ![p].candidates = {t \in DOMAIN tokens : ~tokens[t].used}]
  /\ UNCHANGED <<tokens, locks, started, resets, loginVars, codecVars, entityVars,
                 repairVars, sharedVars>>

\* create_for_user: the UPDATE locks the rows it picked, once no other
\* transaction holds them, and marks those still unused
UpdateUsed(p) ==
  /\ procs[p].pc = "update"
  /\ \A t \in procs[p].candidates : locks[t] = 0
  /\ locks' = [t \in DOMAIN locks |->
                 IF t \in procs[p].candidates /\ ~tokens[t].used THEN p ELSE locks[t]]
  /\ procs' = [procs EXCEPT ![p].pc = "create",
                            ![p].marked = {t \in procs[p].candidates : ~tokens[t].used}]
  /\ UNCHANGED <<tokens, started, resets, loginVars, codecVars, entityVars,
                 repairVars, sharedVars>>

\* the answer of the two endpoints when the mail could not be sent
failed_message(kind) ==
  IF kind = "forgot"
  THEN "Failed to send email. Please check your email configuration and try again."
  ELSE "Failed to send email. Please try again later."

\* the response after send_password_reset_email returned email_sent
mail_response(proc, email_sent) ==
  IF email_sent
  THEN Respond(proc, 200, sent_message(proc.kind),
               {"message", "email", "token", "expires_in"})
  ELSE Respond(proc, 500, failed_message(proc.kind), {"error"})

\* create_for_user: objects.create(...), then the mail, the response and the
\* commit at the end of the atomic block
CreateToken(p, email_sent) ==
  /\ procs[p].pc = "create"
  /\ tokens' = Append([t \in DOMAIN tokens |->
                         IF t \in procs[p].marked
                         THEN [tokens[t] EXCEPT !.used = TRUE] ELSE tokens[t]],
                      NewToken)
  /\ locks' = Append([t \in DOMAIN locks |-> IF locks[t] = p THEN 0 ELSE locks[t]], 0)
  /\ resets' = Append(resets, 0)
  /\ procs' = [procs EXCEPT ![p] = mail_response(procs[p], email_sent)]
  /\ UNCHANGED <<started, loginVars, codecVars, entityVars, repairVars, sharedVars>>

\* what the body of a confirm request can be: complete, a field missing, the
\* two passwords different, or the password too weak
Forms == {"ok", "missing", "mismatch", "weak"}

\* reset_password_confirm_view up to the atomic block
begin_confirm(token, new_password, form) ==
  IF form = "missing"
  THEN Respond([IdleProc EXCEPT !.kind = "confirm", !.token = token],
               400, "All fields are required (token, code, new password, and confirmation)",
               {"error"})
  ELSE IF form = "mismatch"
  THEN Respond([IdleProc EXCEPT !.kind = "confirm", !.token = token],
               400, "Passwords do not match", {"error"})
  ELSE IF form = "weak"
  THEN Respond([IdleProc EXCEPT !.kind = "confirm", !.token = token],
               400, "Password must be at least 8 characters long and contain both letters and numbers",
               {"error"})
  ELSE [IdleProc EXCEPT !.kind = "confirm", !.token = token,
                        !.new_password = new_password, !.pc = "select"]

\* POST /auth/reset-password/ reaches worker p
StartConfirm(p, token, new_password, form) ==
  /\ Free(p)
  /\ started' = started + 1
  /\ procs' = [procs EXCEPT ![p] = begin_confirm(token, new_password, form)]
  /\ UNCHANGED <<tokens, locks, resets, loginVars, codecVars, entityVars,
                 repairVars, sharedVars>>

\* PasswordResetToken.objects.select_for_update().get(token=..., code=...)
SelectForUpdate(p) ==
  /\ procs[p].pc = "select"
  /\ IF procs[p].token \notin DOMAIN tokens
     THEN /\ procs' = [procs EXCEPT ![p] =
                         Respond(procs[p], 400, "Invalid or expired reset code",
                                 {"error"})]
          /\ UNCHANGED locks
     ELSE /\ locks[procs[p].token] = 0
          /\ locks' = [locks EXCEPT ![procs[p].token] = p]
          /\ procs' = [procs EXCEPT ![p].pc = "validate"]
  /\ UNCHANGED <<tokens, started, resets, loginVars, codecVars, entityVars,
                 repairVars, sharedVars>>

\* validate_and_use() accepting a token that was used before
validate_and_use_twice(reset_token) ==
  IF reset_token.expired
  THEN [is_valid |-> FALSE, message |-> "This reset token has expired."]
  ELSE [is_valid |-> TRUE, message |-> "Token validated successfully."]

\* PasswordResetToken.validate_and_use(), without the save of used = True
validate_and_use(reset_token) ==
  IF reset_token.used
  THEN [is_valid |-> FALSE, message |-> "This reset token has already been used."]
  ELSE IF reset_token.expired
  THEN [is_valid |-> FALSE, message |-> "This reset token has expired."]
  ELSE [is_valid |-> TRUE, message |-> "Token validated successfully."]

\* the request after validate_and_use() returned v for the row it read
validated(proc, reset_token, v) ==
  IF v.is_valid
  THEN [proc EXCEPT !.pc = "password", !.marked = {proc.token},
                    !.saw_used = reset_token.used,
                    !.saw_expired = reset_token.expired]
  ELSE [Respond(proc, 400, v.message, {"error"})
          EXCEPT !.saw_used = reset_token.used, !.saw_expired = reset_token.expired]

\* reset_token.validate_and_use(); a rejected request leaves the atomic block
ValidateAndUse(p) ==
  /\ procs[p].pc = "validate"
  /\ procs' = [procs EXCEPT ![p] =
                 validated(procs[p], tokens[procs[p].token],
                           validate_and_use(tokens[procs[p].token]))]
  /\ locks' = IF procs'[p].pc = "done"
              THEN [locks EXCEPT ![procs[p].token] = 0] ELSE locks
  /\ UNCHANGED <<tokens, started, resets, loginVars, codecVars, entityVars,
                 repairVars, sharedVars>>

\* user.set_password(new_password); user.save(); the confirmation mail, the
\* response and the commit at the end of the atomic block
SetPassword(p) ==
  /\ procs[p].pc = "password"
  /\ tokens' = [tokens EXCEPT ![procs[p].token].used = TRUE]
  /\ password' = procs[p].new_password
  /\ resets' = [resets EXCEPT ![procs[p].token] = @ + 1]
  /\ locks' = [locks EXCEPT ![procs[p].token] = 0]
  /\ procs' = [procs EXCEPT ![p] =
                 [Respond(procs[p], 200,
                          "Password has been reset successfully. You can now login with your new password.",
                          {"message", "success"}) EXCEPT !.set_password = TRUE]]
  /\ UNCHANGED <<started, is_active, login, codecVars, entityVars, repairVars,
                 sharedVars>>

\* timezone.now() passes the row's expires_at
TokenExpires(t) ==
  /\ ~tokens[t].expired
  /\ tokens' = [tokens EXCEPT ![t].expired = TRUE]
  /\ UNCHANGED <<locks, procs, started, resets, loginVars, codecVars, entityVars,
                 repairVars, sharedVars>>

ResetNext ==
  \/ \E p \in Workers, kind \in {"forgot", "resend"}, email \in Emails :
       StartRequest(p, kind, email)
  \/ \E p \in Workers : FilterUnused(p)
  \/ \E p \in Workers : UpdateUsed(p)
  \/ \E p \in Workers, email_sent \in BOOLEAN : CreateToken(p, email_sent)
  \/ \E p \in Workers, token \in 1..MaxRequests,
        new_password \in {NewPassword, OtherPassword}, form \in Forms :
       StartConfirm(p, token, new_password, form)
  \/ \E p \in Workers : SelectForUpdate(p)
  \/ \E p \in Workers : ValidateAndUse(p)
  \/ \E p \in Workers : SetPassword(p)
  \/ \E t \in DOMAIN tokens : TokenExpires(t)

SpecReset == ResetInit /\ [][ResetNext]_vars

\* C28: a password-reset token is single-use. Each token leads to at most one
\* successful reset; a confirm request that finds the token used or expired is
\* rejected, and a rejected request has not set the password.
C28_TokenSingleUse ==
  /\ \A t \in DOMAIN tokens : resets[t] <= 1
  /\ \A p \in Workers :
       (procs[p].kind = "confirm" /\ procs[p].pc = "done")
         => /\ (procs[p].saw_used \/ procs[p].saw_expired) => procs[p].status = 400
            /\ procs[p].status # 200 => ~procs[p].set_password

\* C28's case: a reset has succeeded with a token, and a second confirm request
\* with the same token and another password has been rejected
C28_Witness ==
  \E p, q \in Workers :
    /\ procs[p].kind = "confirm" /\ procs[p].status = 200
    /\ procs[q].kind = "confirm" /\ procs[q].pc = "done" /\ procs[q].status = 400
    /\ procs[q].token = procs[p].token /\ procs[q].saw_used
    /\ procs[q].new_password # procs[p].new_password
    /\ password = procs[p].new_password
    /\ resets[procs[p].token] = 1

\* C29: at most one live reset token per user. In every reachable state the
\* user has at most one PasswordResetToken row with used = false.
C29_OneLiveToken ==
  Cardinality({t \in DOMAIN tokens : ~tokens[t].used}) <= 1

\* C30: the forgot-password and resend-code endpoints do not reveal whether an
\* email has an account. Two requests to the same endpoint that differ only in
\* whether the address belongs to a user get the same status code and body fields.
C30_NoAccountEnumeration ==
  \A p, q \in Workers :
    (/\ procs[p].pc = "done" /\ procs[q].pc = "done"
     /\ procs[p].kind \in {"forgot", "resend"} /\ procs[q].kind = procs[p].kind
     /\ procs[p].email = UserEmail /\ procs[q].email = UnknownEmail)
      => /\ procs[p].status = procs[q].status
         /\ procs[p].fields = procs[q].fields
         /\ procs[p].message = procs[q].message

=============================================================================
